---- MODULE Spec2Model ----
(***************************************************************************)
(* Model of src/process_docs.py: the normalisation (DataProcessor),        *)
(* noise filter (filter_text) and vectorisation (get_vecs,                 *)
(* vectorize_repos) stages of the thesis classifier's data pipeline.       *)
(*                                                                         *)
(* A Python str is a sequence of one-character strings, so that a token's  *)
(* characters can be counted and lower-cased; a token list is a sequence   *)
(* of such sequences.  A JSON object is a function (a record), a JSON      *)
(* array a sequence; an absent key is a field missing from the record.     *)
(***************************************************************************)
EXTENDS Integers, Sequences, FiniteSets, TLC

VARIABLES
  pc,         \* position of the running program
  arg, ret,   \* argument and return value of a direct call to a text function
  disk,       \* the folders: docs, processed, filtered, vecs (grouped), dump (flat)
  vecFile,    \* lines of the pretrained vector file, header first
  repoData,   \* content of the flat corpus file, in key order
  todo,       \* files of listdir() the current loop has not reached yet
  pretrained, \* the table local to get_vecs / vectorize_repos
  vecs,       \* vectorize_repos: the batch being accumulated
  cnt,        \* vectorize_repos: documents counted so far
  file_nr,    \* vectorize_repos: number of the next batch file
  idx,        \* vectorize_repos: documents of data.items() consumed so far
  loads,      \* how many times a pretrained table was built in this run
  error       \* the exception that ended a function, or "none"

vars == <<pc, arg, ret, disk, vecFile, repoData, todo, pretrained, vecs, cnt,
          file_nr, idx, loads, error>>

----------------------------------------------------------------------------
(* Bounds of the model *)

\* longest token list handed to filter_text / longest sentence handed to process
MaxTextLen == 3
\* most data lines of the pretrained vector file
MaxLines == 2
\* most documents of the flat corpus in a whole run of the script
MaxRepoDocs == 3
\* most documents of the flat corpus when vectorize_repos is run alone
MaxDocs == 5
\* the batch threshold of vectorize_repos (2000 at process_docs.py:156),
\* scaled down so that several flushes happen within MaxDocs documents
BatchSize == 2

----------------------------------------------------------------------------
(* Characters and strings *)

\* string.ascii_lowercase
letters ==
  {"a","b","c","d","e","f","g","h","i","j","k","l","m",
   "n","o","p","q","r","s","t","u","v","w","x","y","z"}

LowerSeq == <<"a","b","c","d","e","f","g","h","i","j","k","l","m",
              "n","o","p","q","r","s","t","u","v","w","x","y","z">>
UpperSeq == <<"A","B","C","D","E","F","G","H","I","J","K","L","M",
              "N","O","P","Q","R","S","T","U","V","W","X","Y","Z">>

\* str.lower() on one character: upper-case ASCII maps to lower case, every
\* other character of the model (digits, space, lower case) stays
lower_char(c) ==
  IF \E i \in 1..Len(UpperSeq) : UpperSeq[i] = c
  THEN LowerSeq[CHOOSE i \in 1..Len(UpperSeq) : UpperSeq[i] = c]
  ELSE c

\* str.lower()
lower(s) == [i \in 1..Len(s) |-> lower_char(s[i])]

\* s.endswith(suf)
endswith(s, suf) ==
  /\ Len(s) >= Len(suf)
  /\ SubSeq(s, Len(s) - Len(suf) + 1, Len(s)) = suf

\* s[:-len(suf)]
strip_suffix(s, suf) == SubSeq(s, 1, Len(s) - Len(suf))

----------------------------------------------------------------------------
(* DataProcessor *)

\* tag_dict of DataProcessor.process: coarse tag -> wordnet POS constant
tag_dict == [ADJ |-> "a", NOUN |-> "n", VERB |-> "v", ADV |-> "r"]

\* WordNetLemmatizer.lemmatize(word, pos): the library's morphological
\* reduction, here by its exception list and detachment rules for the words of
\* the model (verb running -> run; noun -s, verb -ing / -s, adjective -er;
\* adverbs have no rule)
lemmatize(word, pos) ==
  CASE pos = "v" /\ word = <<"r","u","n","n","i","n","g">> -> <<"r","u","n">>
    [] pos = "n" /\ endswith(word, <<"s">>) /\ Len(word) > 1 ->
         strip_suffix(word, <<"s">>)
    [] pos = "v" /\ endswith(word, <<"i","n","g">>) /\ Len(word) > 3 ->
         strip_suffix(word, <<"i","n","g">>)
    [] pos = "v" /\ endswith(word, <<"s">>) /\ Len(word) > 1 ->
         strip_suffix(word, <<"s">>)
    [] pos = "a" /\ endswith(word, <<"e","r">>) /\ Len(word) > 2 ->
         strip_suffix(word, <<"e","r">>)
    [] OTHER -> word

\* mutant of process: tokens outside tag_dict are dropped
RECURSIVE process_DropOther(_)
process_DropOther(sentence) ==
  IF sentence = <<>> THEN <<>>
  ELSE LET token == Head(sentence)
       IN  IF token.label \in DOMAIN tag_dict
           THEN <<lemmatize(lower(token.text), tag_dict[token.label])>>
                  \o process_DropOther(Tail(sentence))
           ELSE process_DropOther(Tail(sentence))

\* DataProcessor.process on a sentence the tagger has annotated: a sequence
\* of tokens [text, label], label being token.labels[0].value
RECURSIVE process(_)
process(sentence) ==
  IF sentence = <<>> THEN <<>>
  ELSE LET token == Head(sentence)
           lemma == IF token.label \in DOMAIN tag_dict
                    THEN lemmatize(lower(token.text), tag_dict[token.label])
                    ELSE lower(token.text)
       IN  <<lemma>> \o process(Tail(sentence))

----------------------------------------------------------------------------
(* filter_text *)

\* sum([char in letters for char in token])
RECURSIVE cnt_letters(_)
cnt_letters(token) ==
  IF token = <<>> THEN 0
  ELSE (IF Head(token) \in letters THEN 1 ELSE 0) + cnt_letters(Tail(token))

\* mutant of filter_text: the letter threshold is off by one (>= 2)
RECURSIVE filter_text_OffByOne(_, _)
filter_text_OffByOne(text, stopwords) ==
  IF text = <<>> THEN <<>>
  ELSE LET token == Head(text)
           rest  == filter_text_OffByOne(Tail(text), stopwords)
       IN  IF cnt_letters(token) >= 2 /\ token \notin stopwords
           THEN <<token>> \o rest
           ELSE rest

RECURSIVE filter_text(_, _)
filter_text(text, stopwords) ==
  IF text = <<>> THEN <<>>
  ELSE LET token == Head(text)
           rest  == filter_text(Tail(text), stopwords)
       IN  IF cnt_letters(token) > 2 /\ token \notin stopwords
           THEN <<token>> \o rest
           ELSE rest

----------------------------------------------------------------------------
(* The external annotator: Sentence(text) and SequenceTagger.predict *)

\* Sentence(text): the library's tokenizer, here a split on blanks
RECURSIVE split_blank(_, _)
split_blank(s, cur) ==
  IF s = <<>> THEN (IF cur = <<>> THEN <<>> ELSE <<cur>>)
  ELSE IF Head(s) = " "
       THEN (IF cur = <<>> THEN <<>> ELSE <<cur>>) \o split_blank(Tail(s), <<>>)
       ELSE split_blank(Tail(s), Append(cur, Head(s)))

\* spacy.load('en_core_web_sm').Defaults.stop_words, the entries the model's
\* words can meet
STOP_WORDS == { <<"t","h","e">>, <<"a">> }

\* tagger.predict: the 'upos-fast' tagger, here a fixed assignment by word
\* form (the tags process receives are unconstrained under SpecText)
upos(text) ==
  CASE lower(text) \in STOP_WORDS        -> "DET"
    [] endswith(text, <<"i","n","g">>)   -> "VERB"
    [] endswith(text, <<"s">>)           -> "NOUN"
    [] endswith(text, <<"e","r">>)       -> "ADJ"
    [] OTHER                             -> "PROPN"

\* Sentence(doc['data']) after tagger.predict(sentence)
Sentence(text) ==
  LET toks == split_blank(text, <<>>)
  IN  [i \in 1..Len(toks) |-> [text |-> toks[i], label |-> upos(toks[i])]]

----------------------------------------------------------------------------
(* dicts *)

\* {} : the dict with no key
EmptyDict == [k \in {} |-> 0]

\* d[k] = v
Put(d, k, v) == [x \in (DOMAIN d) \cup {k} |-> IF x = k THEN v ELSE d[x]]

----------------------------------------------------------------------------
(* The pretrained vector table *)

\* float(s) for the value fields the model's vector files hold; a field
\* outside the domain makes float() raise ValueError
float == ("1" :> 1) @@ ("1.0" :> 1) @@ ("2" :> 2)

\* `for line in fin`: a line is line.rstrip().split(' ') already, its first
\* field the key and the others the value fields
RECURSIVE load_lines(_, _)
load_lines(lines, table) ==
  IF lines = <<>> THEN [ok |-> TRUE, table |-> table]
  ELSE LET tokens == Head(lines)
       IN  IF \A i \in 1..Len(tokens.fields) : tokens.fields[i] \in DOMAIN float
           THEN load_lines(Tail(lines),
                  Put(table, tokens.key,
                      [i \in 1..Len(tokens.fields) |-> float[tokens.fields[i]]]))
           ELSE [ok |-> FALSE, table |-> table]

\* pretrained = {}; fin.readline(); for line in fin: ...
load_pretrained(file) ==
  load_lines(IF file = <<>> THEN <<>> ELSE Tail(file), EmptyDict)

\* [table[w] for w in words if w in table]
RECURSIVE lookup(_, _)
lookup(words, table) ==
  IF words = <<>> THEN <<>>
  ELSE LET w == Head(words)
       IN  IF w \in DOMAIN table
           THEN <<table[w]>> \o lookup(Tail(words), table)
           ELSE lookup(Tail(words), table)

----------------------------------------------------------------------------
(* The grouped stages, on the content of one input file *)

\* doc['data'] and doc['subjects'] raise KeyError on a record without the key
well_formed(docs) ==
  \A subject \in DOMAIN docs : \A i \in 1..Len(docs[subject]) :
    {"data", "subjects"} \subseteq DOMAIN docs[subject][i]

\* DataProcessor.process_docs
processor_process_docs(docs) ==
  [subject \in DOMAIN docs |->
    [i \in 1..Len(docs[subject]) |->
      [data     |-> process(Sentence(docs[subject][i].data)),
       subjects |-> docs[subject][i].subjects]]]

\* the body of filter_docs' loop over one file
filter_file(processed) ==
  [subject \in DOMAIN processed |->
    [i \in 1..Len(processed[subject]) |->
      [data     |-> filter_text(processed[subject][i].data, STOP_WORDS),
       subjects |-> processed[subject][i].subjects]]]

\* `for w in doc['data']` over a str: its characters, each a str of length 1
chars(text) == [i \in 1..Len(text) |-> <<text[i]>>]

\* mutant of vecs_file: a document with no vector found is not emitted
vecs_file_DropEmpty(docs, table) ==
  [subject \in DOMAIN docs |->
    SelectSeq(
      [i \in 1..Len(docs[subject]) |->
        [data     |-> lookup(chars(docs[subject][i].data), table),
         subjects |-> docs[subject][i].subjects]],
      LAMBDA e : e.data # <<>>)]

\* mutant of vecs_file: the entry's subjects are left empty
vecs_file_NoSubjects(docs, table) ==
  [subject \in DOMAIN docs |->
    [i \in 1..Len(docs[subject]) |->
      [data     |-> lookup(chars(docs[subject][i].data), table),
       subjects |-> <<>>]]]

\* the body of get_vecs' loop over one file of docs_folder, whose documents
\* hold the raw text process_docs reads from the same folder
vecs_file(docs, table) ==
  [subject \in DOMAIN docs |->
    [i \in 1..Len(docs[subject]) |->
      [data     |-> lookup(chars(docs[subject][i].data), table),
       subjects |-> docs[subject][i].subjects]]]

----------------------------------------------------------------------------
(* vectorize_repos, on one document *)

\* None, and a value that is not None
None == <<>>
Some(x) == <<x>>

\* the loop `for t in ('title', 'abstract')`: the `continue` under
\* `if len(texts) == 0` sits in this inner loop, so in either case the loop
\* goes on to the next field and the code after the loop always runs
RECURSIVE concat_fields(_, _, _)
concat_fields(data, fields, texts) ==
  IF fields = <<>> THEN texts
  ELSE LET t      == Head(fields)
           texts2 == IF data[t] # None THEN texts \o data[t][1] ELSE texts
       IN  IF Len(texts2) = 0
           THEN concat_fields(data, Tail(fields), texts2)
           ELSE concat_fields(data, Tail(fields), texts2)

\* data[t] raises KeyError on a record without the key
has_fields(data) == {"title", "abstract"} \subseteq DOMAIN data

\* vecs[doc]: the bare list of vectors, held as the one field of a record so
\* that it compares with an entry of the grouped mode
repo_entry(data, table) ==
  [data |-> lookup(filter_text(concat_fields(data, <<"title", "abstract">>, <<>>),
                               STOP_WORDS), table)]

----------------------------------------------------------------------------
(* Inputs *)

SeqsUpTo(S, n) == UNION { [1..k -> S] : k \in 0..n }

EmptyDisk ==
  [docs |-> EmptyDict, processed |-> EmptyDict, filtered |-> EmptyDict,
   vecs |-> EmptyDict, dump |-> EmptyDict]

\* lines of a vector file: a header, two well-formed lines and a line whose
\* value field is not a number
HeaderLine == [key |-> <<"2">>, fields |-> <<"1">>]
LinePool ==
  { [key |-> <<"a">>,         fields |-> <<"1.0">>],
    [key |-> <<"r","u","n">>, fields |-> <<"2">>],
    [key |-> <<"d","o","g">>, fields |-> <<"x">>] }
VecFiles == { <<HeaderLine>> \o ls : ls \in SeqsUpTo(LinePool, MaxLines) }
GoodVecFile ==
  <<HeaderLine, [key |-> <<"a">>, fields |-> <<"1.0">>],
                [key |-> <<"r","u","n">>, fields |-> <<"2">>]>>

\* documents of the grouped corpus: raw text, and a record without 'data'
DocADogs == [data |-> <<"a"," ","D","o","g","s">>, subjects |-> <<"l1">>]
DocRun   == [data |-> <<"r","u","n">>,             subjects |-> <<"l1","l2">>]
DocAA    == [data |-> <<"a","a">>,                 subjects |-> <<>>]
DocBad   == [subjects |-> <<"l2">>]
FilePool ==
  { [s1 |-> <<DocADogs>>],
    [s1 |-> <<DocAA, DocRun>>, s2 |-> <<DocRun>>],
    [s1 |-> <<DocRun, DocBad>>] }
GroupedCorpora == [{"f1.json", "f2.json"} -> FilePool]

\* records of the flat corpus: token lists that are already lemmatized
RepoNone  == [title |-> None, abstract |-> None, subjects |-> <<"l1">>]
RepoTitle == [title |-> Some(<<<<"r","u","n">>>>), abstract |-> None,
              subjects |-> <<"l2">>]
RepoBoth  == [title |-> Some(<<<<"t","h","e">>, <<"d","o","g">>>>),
              abstract |-> Some(<<<<"r","u","n">>, <<"a","b">>>>),
              subjects |-> <<"l1","l2">>]
RepoShort == [title |-> None, abstract |-> Some(<<<<"a","b">>>>),
              subjects |-> <<>>]
RepoEmptyList == [title |-> Some(<<>>), abstract |-> None, subjects |-> <<"l1">>]
RepoNoKey == [title |-> Some(<<<<"r","u","n">>>>), subjects |-> <<"l1">>]
RepoPool == {RepoNone, RepoTitle, RepoBoth, RepoShort, RepoEmptyList, RepoNoKey}
RunRepoPool == {RepoNone, RepoTitle, RepoNoKey}

\* data.items(): the documents in key order, the i-th under the key i
RepoCorpora(pool, n) ==
  { [i \in 1..Len(ks) |-> [id |-> i, data |-> ks[i]]] : ks \in SeqsUpTo(pool, n) }

\* arguments of a direct call to filter_text or DataProcessor.process
TokenPool ==
  { <<>>, <<"a","b">>, <<"a","1">>, <<"a","b","1">>, <<"t","h","e">>,
    <<"r","u","n">>, <<"R","U","N">>, <<"a","1","b","2","c">> }
StopwordSets ==
  { {}, { <<"t","h","e">> }, { <<"t","h","e">>, <<"a","b">> },
    { <<"r","u","n">>, <<"a","1","b","2","c">> } }
SurfacePool ==
  { <<"D","o","g","s">>, <<"R","u","n","n","i","n","g">>, <<"T","h","e">>,
    <<"f","a","s","t","e","r">> }
LabelPool == {"ADJ", "NOUN", "VERB", "ADV", "PROPN"}
TextArgs ==
  { [fn |-> "filter_text", text |-> t, stopwords |-> sw] :
      t \in SeqsUpTo(TokenPool, MaxTextLen), sw \in StopwordSets }
  \cup
  { [fn |-> "process", sentence |-> snt] :
      snt \in SeqsUpTo([text : SurfacePool, label : LabelPool], MaxTextLen) }

----------------------------------------------------------------------------
(* Direct calls of the text functions *)

InitText ==
  /\ pc = "call"
  /\ arg \in TextArgs
  /\ ret = <<>>
  /\ disk = EmptyDisk
  /\ vecFile = <<>>
  /\ repoData = <<>>
  /\ todo = {}
  /\ pretrained = EmptyDict
  /\ vecs = EmptyDict
  /\ cnt = 0
  /\ file_nr = 1
  /\ idx = 0
  /\ loads = 0
  /\ error = {}

Call_filter_text ==
  /\ pc = "call"
  /\ arg.fn = "filter_text"
  /\ ret' = filter_text(arg.text, arg.stopwords)
  /\ pc' = "returned"
  /\ UNCHANGED <<arg, disk, vecFile, repoData, todo, pretrained, vecs, cnt,
                 file_nr, idx, loads, error>>

Call_process ==
  /\ pc = "call"
  /\ arg.fn = "process"
  /\ ret' = process(arg.sentence)
  /\ pc' = "returned"
  /\ UNCHANGED <<arg, disk, vecFile, repoData, todo, pretrained, vecs, cnt,
                 file_nr, idx, loads, error>>

NextText == Call_filter_text \/ Call_process

SpecText == InitText /\ [][NextText]_vars

----------------------------------------------------------------------------
(* The stages over the folders.  process_docs and filter_docs are run first, *)
(* then the script's main: get_vecs() followed by vectorize_repos().  A      *)
(* function that raises ends; process_docs and filter_docs are separate      *)
(* invocations, so the next one still runs, while an exception in main ends  *)
(* the script.                                                               *)

raised(fn, exc) == error \cup {<<fn, exc>>}

\* json.dump(content, open(f'{folder}/{file}', 'w'))
dump(d, folder, file, content) ==
  [d EXCEPT ![folder] = Put(d[folder], file, content)]

\* mutant of PD_File: what was processed before the failing document is dumped
PD_File_PartialDump ==
  /\ pc = "process_docs"
  /\ \E file \in todo :
       LET docs == disk.docs[file]
           good == [subject \in DOMAIN docs |->
                     SelectSeq(docs[subject],
                               LAMBDA d : {"data", "subjects"} \subseteq DOMAIN d)]
       IN  IF well_formed(docs)
           THEN /\ disk' = dump(disk, "processed", file, processor_process_docs(docs))
                /\ todo' = todo \ {file}
                /\ UNCHANGED <<pc, error>>
           ELSE /\ disk' = dump(disk, "processed", file, processor_process_docs(good))
                /\ error' = raised("process_docs", "KeyError")
                /\ pc' = "filter_docs"
                /\ todo' = DOMAIN disk'.processed
  /\ UNCHANGED <<arg, ret, vecFile, repoData, pretrained, vecs, cnt, file_nr,
                 idx, loads>>

\* process_docs, one turn of `for file in listdir(doc_folder)`: load, process
\* every document, dump; a KeyError leaves the loop before the dump
PD_File ==
  /\ pc = "process_docs"
  /\ \E file \in todo :
       LET docs == disk.docs[file]
       IN  IF well_formed(docs)
           THEN /\ disk' = dump(disk, "processed", file, processor_process_docs(docs))
                /\ todo' = todo \ {file}
                /\ UNCHANGED <<pc, error>>
           ELSE /\ error' = raised("process_docs", "KeyError")
                /\ pc' = "filter_docs"
                /\ todo' = DOMAIN disk.processed
                /\ UNCHANGED disk
  /\ UNCHANGED <<arg, ret, vecFile, repoData, pretrained, vecs, cnt, file_nr,
                 idx, loads>>

\* process_docs returns; filter_docs starts with listdir(processed_folder)
PD_Return ==
  /\ pc = "process_docs"
  /\ todo = {}
  /\ pc' = "filter_docs"
  /\ todo' = DOMAIN disk.processed
  /\ UNCHANGED <<arg, ret, disk, vecFile, repoData, pretrained, vecs, cnt,
                 file_nr, idx, loads, error>>

\* filter_docs, one turn of `for file in listdir(processed_folder)`
FD_File ==
  /\ pc = "filter_docs"
  /\ \E file \in todo :
       /\ disk' = dump(disk, "filtered", file, filter_file(disk.processed[file]))
       /\ todo' = todo \ {file}
  /\ UNCHANGED <<pc, arg, ret, vecFile, repoData, pretrained, vecs, cnt,
                 file_nr, idx, loads, error>>

\* filter_docs returns; the script's main starts
FD_Return ==
  /\ pc = "filter_docs"
  /\ todo = {}
  /\ pc' = "get_vecs_load"
  /\ UNCHANGED <<arg, ret, disk, vecFile, repoData, todo, pretrained, vecs,
                 cnt, file_nr, idx, loads, error>>

\* get_vecs: the table is built, then listdir(docs_folder)
GV_Load ==
  /\ pc = "get_vecs_load"
  /\ loads' = loads + 1
  /\ LET r == load_pretrained(vecFile)
     IN  IF r.ok
         THEN /\ pretrained' = r.table
              /\ pc' = "get_vecs"
              /\ todo' = DOMAIN disk.docs
              /\ UNCHANGED error
         ELSE /\ error' = raised("get_vecs", "ValueError")
              /\ pc' = "done"
              /\ UNCHANGED <<pretrained, todo>>
  /\ UNCHANGED <<arg, ret, disk, vecFile, repoData, vecs, cnt, file_nr, idx>>

\* mutant of GV_File: the table is built again for every input file
GV_File_Reload ==
  /\ pc = "get_vecs"
  /\ \E file \in todo :
       LET docs == disk.docs[file]
       IN  IF well_formed(docs)
           THEN /\ disk' = dump(disk, "vecs", file,
                                vecs_file(docs, load_pretrained(vecFile).table))
                /\ todo' = todo \ {file}
                /\ UNCHANGED <<pc, error>>
           ELSE /\ error' = raised("get_vecs", "KeyError")
                /\ pc' = "done"
                /\ UNCHANGED <<disk, todo>>
  /\ loads' = loads + 1
  /\ UNCHANGED <<arg, ret, vecFile, repoData, pretrained, vecs, cnt, file_nr, idx>>

\* get_vecs, one turn of `for file in listdir(docs_folder)`
GV_File ==
  /\ pc = "get_vecs"
  /\ \E file \in todo :
       LET docs == disk.docs[file]
       IN  IF well_formed(docs)
           THEN /\ disk' = dump(disk, "vecs", file, vecs_file(docs, pretrained))
                /\ todo' = todo \ {file}
                /\ UNCHANGED <<pc, error>>
           ELSE /\ error' = raised("get_vecs", "KeyError")
                /\ pc' = "done"
                /\ UNCHANGED <<disk, todo>>
  /\ UNCHANGED <<arg, ret, vecFile, repoData, pretrained, vecs, cnt, file_nr,
                 idx, loads>>

\* get_vecs returns; main goes on to vectorize_repos
GV_Return ==
  /\ pc = "get_vecs"
  /\ todo = {}
  /\ pc' = "vr_load"
  /\ UNCHANGED <<arg, ret, disk, vecFile, repoData, todo, pretrained, vecs,
                 cnt, file_nr, idx, loads, error>>

\* vectorize_repos up to its loop over the documents: pretrained, vecs = {}, {};
\* cnt, file_nr = 0, 1; the table is built
VR_Load ==
  /\ pc = "vr_load"
  /\ loads' = loads + 1
  /\ vecs' = EmptyDict
  /\ cnt' = 0
  /\ file_nr' = 1
  /\ idx' = 0
  /\ LET r == load_pretrained(vecFile)
     IN  IF r.ok
         THEN /\ pretrained' = r.table
              /\ pc' = "vr_loop"
              /\ UNCHANGED error
         ELSE /\ pretrained' = EmptyDict
              /\ error' = raised("vectorize_repos", "ValueError")
              /\ pc' = "done"
  /\ UNCHANGED <<arg, ret, disk, vecFile, repoData, todo>>

\* mutant of VR_Doc: the batch is flushed one document late
VR_Doc_LateFlush ==
  /\ pc = "vr_loop"
  /\ idx < Len(repoData)
  /\ LET doc  == repoData[idx + 1].id
         data == repoData[idx + 1].data
     IN  IF has_fields(data)
         THEN LET vecs2 == Put(vecs, doc, repo_entry(data, pretrained))
              IN  /\ cnt' = cnt + 1
                  /\ idx' = idx + 1
                  /\ IF cnt' % (BatchSize + 1) = 0
                     THEN /\ disk' = dump(disk, "dump", file_nr, vecs2)
                          /\ vecs' = EmptyDict
                          /\ file_nr' = file_nr + 1
                     ELSE /\ vecs' = vecs2
                          /\ UNCHANGED <<disk, file_nr>>
                  /\ UNCHANGED <<pc, error>>
         ELSE /\ error' = raised("vectorize_repos", "KeyError")
              /\ pc' = "done"
              /\ UNCHANGED <<disk, vecs, cnt, file_nr, idx>>
  /\ UNCHANGED <<arg, ret, vecFile, repoData, todo, pretrained, loads>>

\* vectorize_repos, one turn of `for doc, data in data.items()`
VR_Doc ==
  /\ pc = "vr_loop"
  /\ idx < Len(repoData)
  /\ LET doc  == repoData[idx + 1].id
         data == repoData[idx + 1].data
     IN  IF has_fields(data)
         THEN LET vecs2 == Put(vecs, doc, repo_entry(data, pretrained))
              IN  /\ cnt' = cnt + 1
                  /\ idx' = idx + 1
                  /\ IF cnt' % BatchSize = 0
                     THEN /\ disk' = dump(disk, "dump", file_nr, vecs2)
                          /\ vecs' = EmptyDict
                          /\ file_nr' = file_nr + 1
                     ELSE /\ vecs' = vecs2
                          /\ UNCHANGED <<disk, file_nr>>
                  /\ UNCHANGED <<pc, error>>
         ELSE /\ error' = raised("vectorize_repos", "KeyError")
              /\ pc' = "done"
              /\ UNCHANGED <<disk, vecs, cnt, file_nr, idx>>
  /\ UNCHANGED <<arg, ret, vecFile, repoData, todo, pretrained, loads>>

\* vectorize_repos after the loop: `if len(vecs) > 0: json.dump(...)`
VR_Final ==
  /\ pc = "vr_loop"
  /\ idx = Len(repoData)
  /\ IF DOMAIN vecs # {}
     THEN disk' = dump(disk, "dump", file_nr, vecs)
     ELSE UNCHANGED disk
  /\ pc' = "done"
  /\ UNCHANGED <<arg, ret, vecFile, repoData, todo, pretrained, vecs, cnt,
                 file_nr, idx, loads, error>>

Init ==
  /\ pc = "process_docs"
  /\ arg = <<>>
  /\ ret = <<>>
  /\ \E corpus \in GroupedCorpora : disk = [EmptyDisk EXCEPT !.docs = corpus]
  /\ vecFile \in VecFiles
  /\ repoData \in RepoCorpora(RunRepoPool, MaxRepoDocs)
  /\ todo = DOMAIN disk.docs
  /\ pretrained = EmptyDict
  /\ vecs = EmptyDict
  /\ cnt = 0
  /\ file_nr = 1
  /\ idx = 0
  /\ loads = 0
  /\ error = {}

Next ==
  \/ PD_File \/ PD_Return
  \/ FD_File \/ FD_Return
  \/ GV_Load \/ GV_File \/ GV_Return
  \/ VR_Load \/ VR_Doc \/ VR_Final

Spec == Init /\ [][Next]_vars

\* vectorize_repos run on its own, with a vector file that loads
InitFlat ==
  /\ pc = "vr_load"
  /\ arg = <<>>
  /\ ret = <<>>
  /\ disk = EmptyDisk
  /\ vecFile = GoodVecFile
  /\ repoData \in RepoCorpora(RepoPool, MaxDocs)
  /\ todo = {}
  /\ pretrained = EmptyDict
  /\ vecs = EmptyDict
  /\ cnt = 0
  /\ file_nr = 1
  /\ idx = 0
  /\ loads = 0
  /\ error = {}

NextFlat == VR_Load \/ VR_Doc \/ VR_Final

SpecFlat == InitFlat /\ [][NextFlat]_vars

----------------------------------------------------------------------------
(* Properties *)

\* the j-th smallest element of a set of positions
NthOf(S, j) == CHOOSE i \in S : Cardinality({k \in S : k <= i}) = j

\* the number of a-z characters of a token, counted by position
LetterCount(token) == Cardinality({k \in 1..Len(token) : token[k] \in letters})

\* out is seq restricted to the positions in keep, in order
IsRestriction(out, seq, keep) ==
  /\ Len(out) = Cardinality(keep)
  /\ \A j \in 1..Len(out) : out[j] = seq[NthOf(keep, j)]

\* a flat document whose text fields hold at least one token
NonEmptyText(data) ==
  /\ has_fields(data)
  /\ \/ (data.title # None /\ data.title[1] # <<>>)
     \/ (data.abstract # None /\ data.abstract[1] # <<>>)

\* a flat document whose text fields are null or empty lists
ZeroTokens(data) ==
  /\ has_fields(data)
  /\ (data.title = None \/ data.title[1] = <<>>)
  /\ (data.abstract = None \/ data.abstract[1] = <<>>)

IdsAt(lo, hi) == { repoData[i].id : i \in lo..hi }

Min(a, b) == IF a < b THEN a ELSE b

\* C1: in flat-batched mode over N documents that all have non-empty text,
\* the files written are exactly 1..ceil(N/T) and file j holds exactly the
\* documents at positions (j-1)*T+1 .. min(j*T, N); while the loop runs, the
\* files written are the full batches completed so far.
C1_BatchFiles ==
  (pc \in {"vr_loop", "done"} /\ error = {}
     /\ \A i \in 1..Len(repoData) : NonEmptyText(repoData[i].data))
  => LET T      == BatchSize
         N      == Len(repoData)
         seen   == IF pc = "done" THEN N ELSE idx
         nfiles == IF pc = "done" THEN (N + T - 1) \div T ELSE idx \div T
     IN  /\ DOMAIN disk.dump = 1..nfiles
         /\ \A j \in 1..nfiles :
              /\ DOMAIN disk.dump[j] = IdsAt((j - 1) * T + 1, Min(j * T, seen))
              /\ Cardinality(DOMAIN disk.dump[j]) = Min(j * T, seen) - (j - 1) * T
              /\ j < nfiles => Cardinality(DOMAIN disk.dump[j]) = T
              /\ DOMAIN disk.dump[j] # {}
         /\ \A i \in 1..seen :
              Cardinality({j \in DOMAIN disk.dump :
                             repoData[i].id \in DOMAIN disk.dump[j]})
                = IF i <= nfiles * T THEN 1 ELSE 0

\* C1 witness: 2T+1 documents with text were processed into three files
C1_Witness ==
  /\ pc = "done" /\ error = {}
  /\ Len(repoData) = 2 * BatchSize + 1
  /\ \A i \in 1..Len(repoData) : NonEmptyText(repoData[i].data)
  /\ DOMAIN disk.dump = 1..3
  /\ Cardinality(DOMAIN disk.dump[3]) = 1

\* C2: in flat-batched mode a document whose text fields yield zero tokens is
\* in no batch, written or pending, and is not counted towards the threshold.
C2_EmptyDocSkipped ==
  pc \in {"vr_loop", "done"}
  => /\ \A i \in 1..Len(repoData) :
          ZeroTokens(repoData[i].data)
          => /\ repoData[i].id \notin DOMAIN vecs
             /\ \A j \in DOMAIN disk.dump : repoData[i].id \notin DOMAIN disk.dump[j]
     /\ cnt = Cardinality({i \in 1..idx : ~ZeroTokens(repoData[i].data)})

\* C3: filter_text(T, S) is T restricted, in order and with multiplicity, to
\* the tokens with more than two a-z characters that are not in S.
C3_FilterText ==
  (pc = "returned" /\ arg.fn = "filter_text")
  => LET keep == {i \in 1..Len(arg.text) :
                    LetterCount(arg.text[i]) > 2 /\ arg.text[i] \notin arg.stopwords}
     IN  /\ IsRestriction(ret, arg.text, keep)
         /\ \A j \in 1..Len(ret) :
              LetterCount(ret[j]) > 2 /\ ret[j] \notin arg.stopwords

\* C3 witness: a stopword of three letters and a short token were removed,
\* and a token with digits among three letters was kept
C3_Witness ==
  /\ pc = "returned" /\ arg.fn = "filter_text"
  /\ \E i \in 1..Len(arg.text) :
       arg.text[i] \in arg.stopwords /\ LetterCount(arg.text[i]) > 2
  /\ \E i \in 1..Len(arg.text) :
       arg.text[i] \notin arg.stopwords /\ LetterCount(arg.text[i]) = 2
  /\ ret = << <<"a","1","b","2","c">> >>

\* C4: process returns one element per token, in order: the lemma of the
\* lower-cased surface under the token's POS for ADJ, NOUN, VERB and ADV, the
\* lower-cased surface for every other tag.
C4_Process ==
  (pc = "returned" /\ arg.fn = "process")
  => /\ Len(ret) = Len(arg.sentence)
     /\ \A i \in 1..Len(arg.sentence) :
          LET tok == arg.sentence[i]
          IN  ret[i] = IF tok.label \in {"ADJ", "NOUN", "VERB", "ADV"}
                       THEN lemmatize(lower(tok.text), tag_dict[tok.label])
                       ELSE lower(tok.text)

\* C4 witness: "The Running Dogs" tagged PROPN VERB NOUN gives the run dog
C4_Witness ==
  /\ pc = "returned" /\ arg.fn = "process"
  /\ arg.sentence =
       << [text |-> <<"T","h","e">>, label |-> "PROPN"],
          [text |-> <<"R","u","n","n","i","n","g">>, label |-> "VERB"],
          [text |-> <<"D","o","g","s">>, label |-> "NOUN"] >>
  /\ ret = << <<"t","h","e">>, <<"r","u","n">>, <<"d","o","g">> >>

\* the grouped output `out` has the subjects and positions of the input `docs`
SameShape(out, docs) ==
  /\ DOMAIN out = DOMAIN docs
  /\ \A subject \in DOMAIN docs : Len(out[subject]) = Len(docs[subject])

\* C5: in grouped mode every input document has exactly one entry, under its
\* subject key and at its position, holding table[w] for each attempted
\* element w that is a key of the table, in order and without placeholders; a
\* document with no element in the table is emitted with an empty list.
C5_GroupedVectors ==
  \A file \in DOMAIN disk.vecs :
    LET docs == disk.docs[file]
        out  == disk.vecs[file]
    IN  /\ SameShape(out, docs)
        /\ \A subject \in DOMAIN docs : \A i \in 1..Len(docs[subject]) :
             LET ws   == chars(docs[subject][i].data)
                 hits == {k \in 1..Len(ws) : ws[k] \in DOMAIN pretrained}
                 v    == out[subject][i].data
             IN  /\ Len(v) = Cardinality(hits)
                 /\ \A j \in 1..Len(v) : v[j] = pretrained[ws[NthOf(hits, j)]]
                 /\ hits = 1..Len(ws) => Len(v) = Len(ws)
                 /\ hits = {} => v = <<>>

\* C5 witness: one file's output holds a document all of whose elements were
\* found, beside a document none of whose elements was found
C5_Witness ==
  \E file \in DOMAIN disk.vecs :
    /\ Len(disk.vecs[file].s1) = 2
    /\ disk.docs[file].s1[1] = DocAA
    /\ disk.vecs[file].s1[1].data = << <<1>>, <<1>> >>
    /\ disk.docs[file].s1[2] = DocRun
    /\ disk.vecs[file].s1[2].data = <<>>

\* C6: in grouped mode the vectors of a document are those of the tokens that
\* survive normalization and the noise filter applied to the document's text.
C6_GroupedConsumesFiltered ==
  \A file \in DOMAIN disk.vecs :
    LET docs == disk.docs[file]
        out  == disk.vecs[file]
    IN  /\ SameShape(out, docs)
        /\ \A subject \in DOMAIN docs : \A i \in 1..Len(docs[subject]) :
             out[subject][i].data =
               lookup(filter_text(process(Sentence(docs[subject][i].data)),
                                  STOP_WORDS), pretrained)

\* the entries of a grouped output folder carry their documents' subjects
GroupedSubjectsKept(folder) ==
  \A file \in DOMAIN disk[folder] :
    LET docs == disk.docs[file]
        out  == disk[folder][file]
    IN  /\ SameShape(out, docs)
        /\ \A subject \in DOMAIN docs : \A i \in 1..Len(docs[subject]) :
             out[subject][i].subjects = docs[subject][i].subjects

\* the flat documents of a batch, with their source records
BatchEntries(batch) ==
  { <<batch[repoData[i].id], repoData[i].data>> :
      i \in {k \in 1..Len(repoData) : repoData[k].id \in DOMAIN batch} }

\* C7 as stated: in both modes and in the grouped normalization and filter
\* stages every emitted entry carries its source document's subjects unchanged.
C7_SubjectsKeptEverywhere ==
  /\ \A folder \in {"processed", "filtered", "vecs"} : GroupedSubjectsKept(folder)
  /\ \A j \in DOMAIN disk.dump : \A e \in BatchEntries(disk.dump[j]) :
       /\ "subjects" \in DOMAIN e[1]
       /\ e[1].subjects = e[2].subjects

\* C7 amended: the grouped stages (normalization, filter, get_vecs) carry every
\* document's subjects unchanged; a flat-batched entry is the vector list of
\* its document alone and carries no subjects.
C7_SubjectsKeptGrouped ==
  /\ \A folder \in {"processed", "filtered", "vecs"} : GroupedSubjectsKept(folder)
  /\ \A j \in DOMAIN disk.dump : \A e \in BatchEntries(disk.dump[j]) :
       DOMAIN e[1] = {"data"}

\* C7 witness: all three grouped outputs of a file with labelled documents
\* and a flat batch holding a labelled document have been written
C7_Witness ==
  /\ \E file \in DOMAIN disk.vecs :
       /\ file \in DOMAIN disk.processed /\ file \in DOMAIN disk.filtered
       /\ disk.vecs[file].s1[1].subjects = <<"l1">>
  /\ \E j \in DOMAIN disk.dump : \E e \in BatchEntries(disk.dump[j]) :
       e[2].subjects = <<"l2">>

\* C8: a vector-file line with a non-numeric value field is skipped and the
\* load goes on: no load raises, and once the table is built every well-formed
\* line of the file is in it.
C8_MalformedLineSkipped ==
  /\ \A e \in error : e[2] # "ValueError"
  /\ pc \in {"get_vecs", "vr_load", "vr_loop"}
     => \A k \in 2..Len(vecFile) :
          (\A i \in 1..Len(vecFile[k].fields) : vecFile[k].fields[i] \in DOMAIN float)
          => vecFile[k].key \in DOMAIN pretrained

\* the grouped stages write a file's output only when every document of the
\* input file was processed: a written output has the shape of an input file
\* all of whose records are well formed
GroupedOutputsWhole ==
  \A folder \in {"processed", "filtered", "vecs"} :
    \A file \in DOMAIN disk[folder] :
      /\ file \in DOMAIN disk.docs
      /\ well_formed(disk.docs[file])
      /\ SameShape(disk[folder][file], disk.docs[file])

\* a file that was written is still there, with the same content
OutputsKept ==
  \A folder \in {"processed", "filtered", "vecs", "dump"} :
    \A file \in DOMAIN disk[folder] :
      /\ file \in DOMAIN disk'[folder]
      /\ disk'[folder][file] = disk[folder][file]

\* C9 as stated: in every stage and mode no output of an input file is
\* written before all of its documents were processed, so a failure on any
\* document leaves no output for that input file.
C9_NoOutputBeforeFileDone ==
  /\ GroupedOutputsWhole
  /\ (pc = "vr_loop" /\ idx < Len(repoData)) => DOMAIN disk.dump = {}
  /\ <<"vectorize_repos", "KeyError">> \in error => DOMAIN disk.dump = {}

\* C9 amended: in the grouped stages (process_docs, filter_docs, get_vecs) an
\* input file's output is written only after all of its documents were
\* processed, so a failure leaves no output for that file, and no step changes
\* an output file written before; in flat-batched mode every full batch is
\* written as soon as it is complete, documents of the input still being
\* unprocessed, and a later failure leaves those batch files as written.
C9_WholeFileGroupedOnly ==
  /\ [](/\ GroupedOutputsWhole
        /\ pc \in {"vr_loop", "done"}
           => /\ DOMAIN disk.dump \in {1..(cnt \div BatchSize), 1..(cnt \div BatchSize + 1)}
              /\ \A j \in 1..(cnt \div BatchSize) :
                   Cardinality(DOMAIN disk.dump[j]) = BatchSize
        /\ (pc = "vr_loop" \/ <<"vectorize_repos", "KeyError">> \in error)
           => DOMAIN disk.dump = 1..(cnt \div BatchSize))
  /\ [][OutputsKept]_vars

\* C9 witness: process_docs and get_vecs each failed on a document of one
\* input file and left no output for it, beside the whole output of the
\* file they had processed before
C9_Witness ==
  /\ <<"process_docs", "KeyError">> \in error
  /\ <<"get_vecs", "KeyError">> \in error
  /\ \E file \in DOMAIN disk.docs :
       /\ DOMAIN disk.processed = {file}
       /\ DOMAIN disk.filtered = {file}
       /\ DOMAIN disk.vecs = {file}
       /\ \A other \in DOMAIN disk.docs \ {file} : ~well_formed(disk.docs[other])

====
